---------------------------- MODULE Spec2Model ----------------------------
(***************************************************************************)
(* A model of the length-prefixed framing transport (src/src/transport.rs) *)
(* and of the connection layer that drives it (src/src/connection.rs).     *)
(*                                                                         *)
(* Three specifications share the variables:                               *)
(*   Spec      the framing state machine Simple driven directly:           *)
(*             process_bytes on arbitrary byte slices, receive_raw_packet; *)
(*   SpecConn  receive_packet of a connection reading from a stream, one   *)
(*             step per stream read (the suspension points of the drain);  *)
(*             the peer sends frames and may close the stream;             *)
(*   SpecSend  send_packet / send_raw_packet writing frames to a stream    *)
(*             whose bytes a fresh state machine ingests again.            *)
(***************************************************************************)
EXTENDS Integers, Sequences, FiniteSets, TLC

(***************************************************************************)
(* The width of a byte.  A byte takes the values 0..MaxByte: u8::MAX, 255  *)
(* in the source, scaled down so that every value of a size prefix, and    *)
(* the wrap of a size, is within reach of the byte strings of the model.   *)
(***************************************************************************)
MaxByte == 1

(***************************************************************************)
(* Bounds of the model.                                                    *)
(***************************************************************************)
\* Total number of bytes handed to process_bytes in a run of Spec.
MaxFed == 10
\* Longest payload handed to send_raw_packet, and the number of sends, in a
\* run of SpecSend.
MaxPayload == 2
MaxSends == 2
\* Number of frames the peer sends in a run of SpecConn.
MaxFrames == 2
\* The capacity of the scratch buffer of process_data: BUFFER_SIZE, 10000 in
\* the source (transport.rs:127), scaled down to the streams of the model so
\* that a read can fill it.
BUFFER_SIZE == 3

Byte == 0..MaxByte

\* The number of values of a byte (256 in the source).
Radix == MaxByte + 1

\* All byte strings of at most n bytes.
ByteSeqs(n) == UNION {[1..k -> Byte] : k \in 0..n}

Min(a, b) == IF a < b THEN a ELSE b

(***************************************************************************)
(* Settings: the byte order of the protocol crate's Settings, the only     *)
(* part of it the framing reads.                                           *)
(***************************************************************************)
ByteOrders == {"BigEndian", "LittleEndian"}

\* mem::size_of::<PacketSize>() for PacketSize = u32.
SizeOfPacketSize == 4
\* The number of values of PacketSize: four bytes (2^32 in the source).
PacketSizeModulus == Radix * Radix * Radix * Radix

\* `len as PacketSize`: the narrowing cast of a usize to the four-byte size.
as_PacketSize(len) == len % PacketSizeModulus

Reverse(s) == [i \in 1..Len(s) |-> s[Len(s) + 1 - i]]

\* PacketSize::write(&mut w, settings): the four bytes of a u32.
WriteU32BigEndian(n) ==
    << (n \div (Radix * Radix * Radix)) % Radix, (n \div (Radix * Radix)) % Radix,
       (n \div Radix) % Radix, n % Radix >>

WritePacketSize(n, s) ==
    IF s = "BigEndian" THEN WriteU32BigEndian(n) ELSE Reverse(WriteU32BigEndian(n))

\* PacketSize::read(&mut size_buffer, settings) on exactly four bytes.
ReadU32BigEndian(b) ==
    b[1] * (Radix * Radix * Radix) + b[2] * (Radix * Radix) + b[3] * Radix + b[4]

ReadPacketSize(b, s) ==
    IF s = "BigEndian" THEN ReadU32BigEndian(b) ELSE ReadU32BigEndian(Reverse(b))

(***************************************************************************)
(* enum State                                                              *)
(***************************************************************************)
AwaitingSize(size_bytes) == [tag |-> "AwaitingSize", size_bytes |-> size_bytes]

AwaitingPacket(size, received_data) ==
    [tag |-> "AwaitingPacket", size |-> size, received_data |-> received_data]

VARIABLES
    settings,   \* Settings.byte_order of the connection
    state,      \* Simple.state
    packets,    \* Simple.packets, front first
    stream,     \* read half: bytes that arrived and no read has returned yet
    inflight,   \* bytes the peer has still to put on the stream
    eof,        \* the peer closed its write side
    wire,       \* write half: the bytes the stream's write calls accepted
    pc,         \* "idle" | "read" (receive_packet suspended in a read) | "panicked"
    ret,        \* what the last call returned ("pending" while it runs)
    lastread,   \* history: how the last read of the latest call ended: "none" yet,
                \* "eof", "short" of BUFFER_SIZE bytes, "full", or "Err"
    fed,        \* history: all bytes handed to process_bytes, in order
    delivered,  \* history: the payloads receive_raw_packet returned, in order
    errors,     \* history: the number of receive_packet calls that returned Err
    sent,       \* history: the payloads whose send_raw_packet returned Ok
    split       \* Connection::split: whether it was called, the transport of
                \* the connection it consumed, the transport of the send half
                \* and what the send half's last call returned

vars == << settings, state, packets, stream, inflight, eof, wire, pc, ret,
           lastread, fed, delivered, errors, sent, split >>

\* The stream and what is known of its reads.
streamVars == << stream, inflight, eof, lastread >>

Ret(op, res, val) == [op |-> op, res |-> res, val |-> val]

(***************************************************************************)
(* Simple::process_bytes, the loop of lines 60-121 on the cursor `read`.   *)
(* The result is a panic when one of the assertions fails; the fields of   *)
(* self are then as the loop left them.                                    *)
(***************************************************************************)
Outcome(st, pk, res) == [state |-> st, packets |-> pk, result |-> res]

RECURSIVE process_bytes_loop(_, _, _, _)
process_bytes_loop(st, pk, read, s) ==
    IF st.tag = "AwaitingSize"
    THEN LET remaining_bytes == SizeOfPacketSize - Len(st.size_bytes)
             bytes_read == Min(remaining_bytes, Len(read))
             received_bytes == SubSeq(read, 1, bytes_read)
             rest == SubSeq(read, bytes_read + 1, Len(read))
             size_bytes == st.size_bytes \o received_bytes
         IN  IF Len(received_bytes) # bytes_read
             THEN Outcome(st, pk, "panic")
             ELSE IF Len(size_bytes) = SizeOfPacketSize
             THEN process_bytes_loop(
                      AwaitingPacket(ReadPacketSize(size_bytes, s), << >>),
                      pk, rest, s)
             ELSE Outcome(AwaitingSize(size_bytes), pk, "Ok")
    ELSE LET remaining_bytes == st.size - Len(st.received_data)
             bytes_read == Min(remaining_bytes, Len(read))
             received_bytes == SubSeq(read, 1, bytes_read)
             rest == SubSeq(read, bytes_read + 1, Len(read))
             received_data == st.received_data \o received_bytes
         IN  IF ~(remaining_bytes > 0)
             THEN Outcome(st, pk, "panic")
             ELSE IF Len(received_bytes) # bytes_read
             THEN Outcome(st, pk, "panic")
             ELSE IF ~(Len(received_data) <= st.size)
             THEN Outcome(st, pk, "panic")
             ELSE IF st.size = Len(received_data)
             THEN process_bytes_loop(AwaitingSize(<< >>),
                                     Append(pk, received_data), rest, s)
             ELSE Outcome(AwaitingPacket(st.size, received_data), pk, "Ok")

process_bytes(st, pk, bytes, s) == process_bytes_loop(st, pk, bytes, s)

(***************************************************************************)
(* Simple::receive_raw_packet: VecDeque::pop_front.                        *)
(***************************************************************************)
\* A queue that hands out its newest packet (pop_back for pop_front).
pop_back(q) ==
    IF q = << >>
    THEN [some |-> FALSE, val |-> << >>, rest |-> q]
    ELSE [some |-> TRUE, val |-> q[Len(q)], rest |-> SubSeq(q, 1, Len(q) - 1)]

pop_front(q) ==
    IF q = << >>
    THEN [some |-> FALSE, val |-> << >>, rest |-> q]
    ELSE [some |-> TRUE, val |-> Head(q), rest |-> Tail(q)]

(***************************************************************************)
(* Simple::new / Connection::new                                           *)
(***************************************************************************)
\* The fields of a Simple as Simple::new sets them.
Simple_new == [state |-> AwaitingSize(<< >>), packets |-> << >>]

Fresh ==
    /\ settings \in ByteOrders
    /\ state = AwaitingSize(<< >>)
    /\ packets = << >>
    /\ stream = << >>
    /\ eof = FALSE
    /\ wire = << >>
    /\ pc = "idle"
    /\ ret = Ret("new", "Ok", << >>)
    /\ lastread = "none"
    /\ fed = << >>
    /\ delivered = << >>
    /\ errors = 0
    /\ sent = << >>
    /\ split = [done |-> FALSE, dropped |-> Simple_new, send |-> Simple_new,
                ret |-> Ret("new", "Ok", << >>)]

Init == Fresh /\ inflight = << >>

(***************************************************************************)
(* Spec: the operations of Simple called directly.                         *)
(***************************************************************************)
ProcessBytes(bytes) ==
    /\ pc = "idle"
    /\ Len(fed) + Len(bytes) <= MaxFed
    /\ LET r == process_bytes(state, packets, bytes, settings)
       IN  /\ state' = r.state
           /\ packets' = r.packets
           /\ pc' = IF r.result = "panic" THEN "panicked" ELSE "idle"
           /\ ret' = Ret("process_bytes", r.result, << >>)
    /\ fed' = fed \o bytes
    /\ UNCHANGED << settings, split, streamVars, wire, delivered, errors, sent >>

ReceiveRawPacket ==
    /\ pc = "idle"
    /\ LET p == pop_front(packets)
       IN  /\ packets' = p.rest
           /\ ret' = Ret("receive_raw_packet",
                         IF p.some THEN "Some" ELSE "None", p.val)
           /\ delivered' = IF p.some THEN Append(delivered, p.val) ELSE delivered
    /\ UNCHANGED << settings, split, state, streamVars, wire, pc, fed, errors, sent >>

Next ==
    \/ \E bytes \in ByteSeqs(MaxFed - Len(fed)) : ProcessBytes(bytes)
    \/ ReceiveRawPacket

Spec == Init /\ [][Next]_vars

(***************************************************************************)
(* The wire format as section 6 of the specification states it, read off   *)
(* a whole byte string at once: the frames it holds and the incomplete     *)
(* frame left at its end.  The claims compare the state machine with it.   *)
(***************************************************************************)
IsPrefix(a, b) == Len(a) <= Len(b) /\ a = SubSeq(b, 1, Len(a))

\* size4(P) || P
Frame(P, s) == WritePacketSize(Len(P), s) \o P

\* Whether the byte string starts with a whole frame.
HasFrame(bytes, s) ==
    /\ Len(bytes) >= SizeOfPacketSize
    /\ Len(bytes) >= SizeOfPacketSize
           + ReadPacketSize(SubSeq(bytes, 1, SizeOfPacketSize), s)

FirstFrameEnd(bytes, s) ==
    SizeOfPacketSize + ReadPacketSize(SubSeq(bytes, 1, SizeOfPacketSize), s)

RECURSIVE RefPackets(_, _)
RefPackets(bytes, s) ==
    IF ~HasFrame(bytes, s)
    THEN << >>
    ELSE << SubSeq(bytes, SizeOfPacketSize + 1, FirstFrameEnd(bytes, s)) >>
         \o RefPackets(SubSeq(bytes, FirstFrameEnd(bytes, s) + 1, Len(bytes)), s)

RECURSIVE RefRest(_, _)
RefRest(bytes, s) ==
    IF ~HasFrame(bytes, s)
    THEN bytes
    ELSE RefRest(SubSeq(bytes, FirstFrameEnd(bytes, s) + 1, Len(bytes)), s)

\* The parse state that holds an incomplete frame.
RefState(rest, s) ==
    IF Len(rest) < SizeOfPacketSize
    THEN AwaitingSize(rest)
    ELSE AwaitingPacket(ReadPacketSize(SubSeq(rest, 1, SizeOfPacketSize), s),
                        SubSeq(rest, SizeOfPacketSize + 1, Len(rest)))

\* The frames of the payloads ps, one after the other.
RECURSIVE ConcatFrames(_, _)
ConcatFrames(ps, s) ==
    IF ps = << >> THEN << >> ELSE Frame(Head(ps), s) \o ConcatFrames(Tail(ps), s)


(***************************************************************************)
(* SpecConn: receiving on a connection.  The peer has a script of whole     *)
(* frames to send; its bytes arrive one by one, and it may close the        *)
(* stream at any point, also in the middle of a frame.                      *)
(***************************************************************************)
ConnPayloads == {<< >>, << 1 >>, << 0, 1 >>}

PayloadSeqs(n) == UNION {[1..k -> ConnPayloads] : k \in 0..n}

Scripts(s) == {ConcatFrames(ps, s) : ps \in PayloadSeqs(MaxFrames)}

InitConn == Fresh /\ inflight \in Scripts(settings)

\* One round of the loop of Simple::process_data, lines 138-151, for a read
\* that returned the bytes `buffer`; `again` says whether the loop goes on
\* to another read.
process_data_round(st, pk, buffer, s) ==
    IF Len(buffer) = 0
    THEN [state |-> st, packets |-> pk, result |-> "Ok", again |-> FALSE]
    ELSE LET r == process_bytes(st, pk, buffer, s)
         IN  [state |-> r.state, packets |-> r.packets, result |-> r.result,
              again |-> r.result = "Ok" /\ Len(buffer) = BUFFER_SIZE]

\* An empty queue reported as an error instead of Ok(None).
receive_packet_tail_none_is_err(pk, decoded) ==
    LET p == pop_front(pk)
    IN  IF ~p.some
        THEN [packets |-> p.rest, taken |-> << >>,
              ret |-> Ret("receive_packet", "Err", << >>)]
        ELSE IF decoded
        THEN [packets |-> p.rest, taken |-> << p.val >>,
              ret |-> Ret("receive_packet", "Some", p.val)]
        ELSE [packets |-> p.rest, taken |-> << p.val >>,
              ret |-> Ret("receive_packet", "Err", << >>)]

\* The payload decoded before it is dequeued: a payload that fails to decode
\* stays at the front of the queue.
receive_packet_tail_decode_first(pk, decoded) ==
    LET p == pop_front(pk)
    IN  IF ~p.some
        THEN [packets |-> p.rest, taken |-> << >>,
              ret |-> Ret("receive_packet", "None", << >>)]
        ELSE IF decoded
        THEN [packets |-> p.rest, taken |-> << p.val >>,
              ret |-> Ret("receive_packet", "Some", p.val)]
        ELSE [packets |-> pk, taken |-> << >>,
              ret |-> Ret("receive_packet", "Err", << >>)]

\* connection.rs receive_packet after the drain, lines 17-25.  `decoded` is
\* whether middleware.decode_data and P::read both succeed on the payload;
\* the value they produce is represented by the payload it was read from.
receive_packet_tail(pk, decoded) ==
    LET p == pop_front(pk)
    IN  IF ~p.some
        THEN [packets |-> p.rest, taken |-> << >>,
              ret |-> Ret("receive_packet", "None", << >>)]
        ELSE IF decoded
        THEN [packets |-> p.rest, taken |-> << p.val >>,
              ret |-> Ret("receive_packet", "Some", p.val)]
        ELSE [packets |-> p.rest, taken |-> << p.val >>,
              ret |-> Ret("receive_packet", "Err", << >>)]

\* Connection::receive_packet / ReceiveConnection::receive_packet is called
\* and suspends in the first read of process_data.
ReceivePacketCall ==
    /\ pc = "idle"
    /\ pc' = "read"
    /\ ret' = Ret("receive_packet", "pending", << >>)
    /\ lastread' = "none"
    /\ UNCHANGED << settings, split, state, packets, stream, inflight, eof,
                    wire, fed, delivered, errors, sent >>

\* The pending read returns n bytes: at least one and at most BUFFER_SIZE of
\* those that arrived, or none at the end of a closed stream.  The call runs
\* on to its next read or to its return.
ReadReturns(n, decoded) ==
    /\ pc = "read"
    /\ \/ n \in 1..Min(Len(stream), BUFFER_SIZE)
       \/ n = 0 /\ stream = << >> /\ eof
    /\ stream' = SubSeq(stream, n + 1, Len(stream))
    /\ lastread' = IF n = 0 THEN "eof"
                   ELSE IF n = BUFFER_SIZE THEN "full" ELSE "short"
    /\ fed' = fed \o SubSeq(stream, 1, n)
    /\ LET d == process_data_round(state, packets, SubSeq(stream, 1, n), settings)
           t == receive_packet_tail(d.packets, decoded)
       IN  /\ state' = d.state
           /\ IF d.result = "panic"
              THEN /\ pc' = "panicked"
                   /\ ret' = Ret("process_bytes", "panic", << >>)
                   /\ packets' = d.packets
                   /\ UNCHANGED << delivered, errors >>
              ELSE IF d.again
              THEN /\ packets' = d.packets
                   /\ UNCHANGED << pc, ret, delivered, errors >>
              ELSE /\ pc' = "idle"
                   /\ ret' = t.ret
                   /\ packets' = t.packets
                   /\ delivered' = delivered \o t.taken
                   /\ errors' = IF t.ret.res = "Err" THEN errors + 1 ELSE errors
    /\ UNCHANGED << settings, split, inflight, eof, wire, sent >>

\* The pending read fails with an I/O error: line 139 unwraps the result.
ReadFails ==
    /\ pc = "read"
    /\ lastread' = "Err"
    /\ pc' = "panicked"
    /\ ret' = Ret("process_data", "panic", << >>)
    /\ UNCHANGED << settings, split, state, packets, stream, inflight, eof, wire, fed,
                    delivered, errors, sent >>

\* A cancellation that also throws away the incomplete frame.
Cancel_drops_partial ==
    /\ pc = "read"
    /\ pc' = "idle"
    /\ ret' = Ret("receive_packet", "cancelled", << >>)
    /\ state' = AwaitingSize(<< >>)
    /\ UNCHANGED << settings, packets, streamVars, wire, fed, delivered,
                    errors, sent, split >>

\* A receive_packet call that is suspended in a read is dropped (a select!
\* or a timeout around it): the future's buffer goes with it, the transport
\* and the stream stay as they are.
Cancel ==
    /\ pc = "read"
    /\ pc' = "idle"
    /\ ret' = Ret("receive_packet", "cancelled", << >>)
    /\ UNCHANGED << settings, state, packets, streamVars, wire, fed, delivered,
                    errors, sent, split >>

\* The next byte of the peer arrives.
Arrive ==
    /\ ~eof
    /\ inflight # << >>
    /\ stream' = Append(stream, Head(inflight))
    /\ inflight' = Tail(inflight)
    /\ UNCHANGED << settings, split, state, packets, eof, wire, pc, ret, lastread, fed,
                    delivered, errors, sent >>

\* The peer closes the stream; what it had not sent is never sent.
PeerClose ==
    /\ ~eof
    /\ eof' = TRUE
    /\ UNCHANGED << settings, split, state, packets, stream, inflight, wire, pc, ret,
                    lastread, fed, delivered, errors, sent >>

NextConn ==
    \/ ReceivePacketCall
    \/ \E n \in 0..BUFFER_SIZE : \E decoded \in BOOLEAN : ReadReturns(n, decoded)
    \/ ReadFails
    \/ Cancel
    \/ Arrive
    \/ PeerClose

SpecConn == InitConn /\ [][NextConn]_vars

\* A read that can return does return: the runtime polls a call whose
\* stream is ready.  Nothing obliges the peer to send or to close, nor the
\* caller to call or to cancel.
SpecConnLive ==
    /\ SpecConn
    /\ WF_vars(\E n \in 0..BUFFER_SIZE : \E decoded \in BOOLEAN :
                   ReadReturns(n, decoded))

(***************************************************************************)
(* SpecSend: sending.  The stream is a loopback: the bytes its write calls  *)
(* accepted come back to be ingested by process_bytes, in any chunking.     *)
(***************************************************************************)

\* Simple::send_raw_packet, lines 163-171.  `accepted` is what the one call
\* of write.write returned: an error, or Ok(n) for the n bytes it took, a
\* number the code drops.
send_raw_packet(out, packet, s, accepted) ==
    LET w == WritePacketSize(as_PacketSize(Len(packet)), s) \o packet
    IN  IF ~accepted.ok
        THEN [wire |-> out, result |-> "Err"]
        ELSE [wire |-> out \o SubSeq(w, 1, accepted.n), result |-> "Ok"]

\* What a write call on a stream may return for a buffer of n > 0 bytes.
WriteOutcomes(n) ==
    {[ok |-> TRUE, n |-> k] : k \in 1..n} \cup {[ok |-> FALSE, n |-> 0]}

FrameLen(packet) == SizeOfPacketSize + Len(packet)

\* A send that starts the parse over: it drops the incomplete frame the
\* state machine holds.
SendRawPacket_resets_state(packet, accepted) ==
    /\ pc = "idle"
    /\ Len(sent) < MaxSends
    /\ LET r == send_raw_packet(wire, packet, settings, accepted)
       IN  /\ wire' = r.wire
           /\ ret' = Ret("send_raw_packet", r.result, << >>)
           /\ sent' = IF r.result = "Ok" THEN Append(sent, packet) ELSE sent
    /\ state' = AwaitingSize(<< >>)
    /\ UNCHANGED << settings, split, packets, streamVars, pc, fed, delivered, errors >>

SendRawPacket(packet, accepted) ==
    /\ pc = "idle"
    /\ Len(sent) < MaxSends
    /\ LET r == send_raw_packet(wire, packet, settings, accepted)
       IN  /\ wire' = r.wire
           /\ ret' = Ret("send_raw_packet", r.result, << >>)
           /\ sent' = IF r.result = "Ok" THEN Append(sent, packet) ELSE sent
    /\ UNCHANGED << settings, split, state, packets, streamVars, pc, fed, delivered,
                    errors >>

\* connection.rs send_packet, lines 28-39: `packet` stands for the bytes
\* middleware.encode_data(packet.raw_bytes(settings)?)? returns, and
\* encoded = FALSE for a `?` that returns the codec's or the pipeline's error.
SendPacket(packet, encoded, accepted) ==
    /\ pc = "idle"
    /\ Len(sent) < MaxSends
    /\ IF ~encoded
       THEN /\ ret' = Ret("send_packet", "Err", << >>)
            /\ UNCHANGED << wire, sent >>
       ELSE LET r == send_raw_packet(wire, packet, settings, accepted)
            IN  /\ wire' = r.wire
                /\ ret' = Ret("send_packet", r.result, << >>)
                /\ sent' = IF r.result = "Ok" THEN Append(sent, packet) ELSE sent
    /\ UNCHANGED << settings, split, state, packets, streamVars, pc, fed, delivered,
                    errors >>

\* The loopback hands the next n written bytes to process_bytes.
IngestWire(n) ==
    /\ pc = "idle"
    /\ n \in 1..(Len(wire) - Len(fed))
    /\ LET bytes == SubSeq(wire, Len(fed) + 1, Len(fed) + n)
           r == process_bytes(state, packets, bytes, settings)
       IN  /\ state' = r.state
           /\ packets' = r.packets
           /\ pc' = IF r.result = "panic" THEN "panicked" ELSE "idle"
           /\ ret' = Ret("process_bytes", r.result, << >>)
           /\ fed' = fed \o bytes
    /\ UNCHANGED << settings, split, streamVars, wire, delivered, errors, sent >>

NextSend ==
    \/ \E packet \in ByteSeqs(MaxPayload) :
           \E accepted \in WriteOutcomes(FrameLen(packet)) :
               SendRawPacket(packet, accepted)
    \/ \E packet \in ByteSeqs(MaxPayload) :
           \E encoded \in BOOLEAN :
               \E accepted \in WriteOutcomes(FrameLen(packet)) :
                   SendPacket(packet, encoded, accepted)
    \/ \E n \in 1..(MaxSends * (SizeOfPacketSize + MaxPayload)) : IngestWire(n)
    \/ ReceiveRawPacket

SpecSend == Init /\ [][NextSend]_vars

(***************************************************************************)
(* SpecWide: sending payloads whose length is around the number of values  *)
(* of PacketSize, over a stream that takes a whole buffer or fails.        *)
(***************************************************************************)
\* How far the payload lengths go beyond the number of values of PacketSize.
MaxOver == 1

\* Payloads of one repeated byte, of the longest length a PacketSize holds
\* up to MaxOver beyond the number of its values.
WidePayloads ==
    {[i \in 1..n |-> b] :
        n \in (PacketSizeModulus - 1)..(PacketSizeModulus + MaxOver), b \in Byte}

\* The write call takes the whole buffer of n bytes, or fails.
WholeWrites(n) == {[ok |-> TRUE, n |-> n], [ok |-> FALSE, n |-> 0]}

NextWide ==
    \/ \E packet \in WidePayloads :
           \E accepted \in WholeWrites(FrameLen(packet)) :
               SendRawPacket(packet, accepted)
    \/ \E n \in 1..(MaxSends * (SizeOfPacketSize + PacketSizeModulus + MaxOver)) :
           IngestWire(n)
    \/ ReceiveRawPacket

SpecWide == Init /\ [][NextWide]_vars

(***************************************************************************)
(* SpecSplit: a connection that receives, is split, and whose halves are   *)
(* then driven by two tasks.  After the split, state and packets are the   *)
(* transport of the receive half, fed and delivered its history, and pc    *)
(* and ret the position and the result of the task that receives; the      *)
(* task that sends has its result in split.ret.  The peer keeps the stream *)
(* open, no read fails and every payload decodes: what the connection does *)
(* otherwise, and with the other byte order, is in SpecConn.               *)
(***************************************************************************)
\* The payloads the peer sends, and the frames it has to send: MaxFrames
\* of them, of which any number may stay unsent.
SplitPayloads == {<< 1 >>, << 0, 1 >>}

SplitScripts(s) ==
    {ConcatFrames(ps, s) : ps \in [1..MaxFrames -> SplitPayloads]}

\* The connection of SpecSplit is made with one of the byte orders.
InitSplit ==
    /\ Fresh
    /\ settings = "BigEndian"
    /\ inflight \in SplitScripts(settings)

\* The k-th payload the sending task sends: two payloads in turn.
SendProgram(k) == IF k % 2 = 1 THEN << 1 >> ELSE << 0, 1 >>
\* A split that hands the transport of the connection to the receive half.
Split_keeps_transport ==
    /\ pc = "idle"
    /\ ~split.done
    /\ split' = [done |-> TRUE,
                 dropped |-> [state |-> state, packets |-> packets],
                 send |-> Simple_new,
                 ret |-> Ret("split", "Ok", << >>)]
    /\ ret' = Ret("split", "Ok", << >>)
    /\ fed' = << >>
    /\ delivered' = << >>
    /\ UNCHANGED << settings, state, packets, streamVars, wire, pc, errors,
                    sent >>

\* Connection::split, lines 95-103: the connection is consumed, its
\* transport dropped with it; ReceiveConnection::new and SendConnection::new
\* each make a transport with Simple::new.  The stream, with the bytes no
\* read has returned yet, goes on in its two halves.
Split ==
    /\ pc = "idle"
    /\ ~split.done
    /\ split' = [done |-> TRUE,
                 dropped |-> [state |-> state, packets |-> packets],
                 send |-> Simple_new,
                 ret |-> Ret("split", "Ok", << >>)]
    /\ state' = Simple_new.state
    /\ packets' = Simple_new.packets
    /\ ret' = Ret("split", "Ok", << >>)
    /\ fed' = << >>
    /\ delivered' = << >>
    /\ UNCHANGED << settings, streamVars, wire, pc, errors, sent >>

\* A send half that takes turns with the receive half: it sends only while
\* no receive_packet call is in progress.
SendHalfSendPacket_after_receive(packet, encoded, accepted) ==
    /\ split.done
    /\ pc = "idle"
    /\ Len(sent) < MaxSends
    /\ IF ~encoded
       THEN /\ split' = [split EXCEPT !.ret = Ret("send_packet", "Err", << >>)]
            /\ UNCHANGED << wire, sent >>
       ELSE LET r == send_raw_packet(wire, packet, settings, accepted)
            IN  /\ wire' = r.wire
                /\ split' = [split EXCEPT
                                 !.ret = Ret("send_packet", r.result, << >>)]
                /\ sent' = IF r.result = "Ok" THEN Append(sent, packet) ELSE sent
    /\ UNCHANGED << settings, state, packets, streamVars, pc, ret, fed,
                    delivered, errors >>

\* SendConnection::send_packet, lines 128-137, on the write half and the
\* transport of the send half, which send_raw_packet leaves as it is.
SendHalfSendPacket(packet, encoded, accepted) ==
    /\ split.done
    /\ Len(sent) < MaxSends
    /\ IF ~encoded
       THEN /\ split' = [split EXCEPT !.ret = Ret("send_packet", "Err", << >>)]
            /\ UNCHANGED << wire, sent >>
       ELSE LET r == send_raw_packet(wire, packet, settings, accepted)
            IN  /\ wire' = r.wire
                /\ split' = [split EXCEPT
                                 !.ret = Ret("send_packet", r.result, << >>)]
                /\ sent' = IF r.result = "Ok" THEN Append(sent, packet) ELSE sent
    /\ UNCHANGED << settings, state, packets, streamVars, pc, ret, fed,
                    delivered, errors >>

\* The next send_packet call of the sending task.
SendHalfStep ==
    \E encoded \in BOOLEAN :
        \E accepted \in WholeWrites(FrameLen(SendProgram(Len(sent) + 1))) :
            SendHalfSendPacket(SendProgram(Len(sent) + 1), encoded, accepted)

\* The read the receiving task is suspended in returns.
ReadStep == \E n \in 1..BUFFER_SIZE : ReadReturns(n, TRUE)

NextSplit ==
    \/ ReceivePacketCall
    \/ ReadStep
    \/ Cancel
    \/ Arrive
    \/ Split
    \/ SendHalfStep

SpecSplit == InitSplit /\ [][NextSplit]_vars

(***************************************************************************)
(* SpecOps: the three operations of one Simple called in any order:        *)
(* process_bytes on arbitrary bytes, receive_raw_packet, and               *)
(* send_raw_packet on a stream that takes a whole buffer or fails.         *)
(***************************************************************************)
NextOps ==
    \/ \E bytes \in ByteSeqs(MaxFed - Len(fed)) : ProcessBytes(bytes)
    \/ ReceiveRawPacket
    \/ \E accepted \in WholeWrites(FrameLen(SendProgram(Len(sent) + 1))) :
           SendRawPacket(SendProgram(Len(sent) + 1), accepted)

SpecOps == Init /\ [][NextOps]_vars

(***************************************************************************)
(* Claims checked under Spec.                                              *)
(***************************************************************************)

\* C1 (as claimed): when the bytes fed to a fresh state machine, in whatever
\* chunks, are exactly size4(P) || P for a payload P, and nothing was dequeued,
\* process_bytes has not failed, the queue holds exactly the one packet P and
\* the parse state is AwaitingSize with an empty buffer.
C1_FragmentationInvariance ==
    \A P \in ByteSeqs(MaxFed) :
        (fed = Frame(P, settings) /\ delivered = << >>)
            => /\ pc # "panicked"
               /\ packets = << P >>
               /\ state = AwaitingSize(<< >>)

\* C2 (as claimed): a single process_bytes call on a fresh state machine
\* queues exactly the frames its input holds, in order, and leaves the
\* incomplete frame at the end of the input as the partial buffer.
C2_ManyPacketsPerCall ==
    [][(fed = << >> /\ delivered = << >> /\ fed' # << >>)
          => /\ pc' # "panicked"
             /\ packets' = RefPackets(fed', settings)
             /\ state' = RefState(RefRest(fed', settings), settings)]_vars

\* C3 (as claimed): once the bytes fed end with a complete size prefix of
\* value 0, process_bytes has not failed, the empty payload of that frame is
\* queued (or was dequeued) and the parse state is AwaitingSize with an empty
\* buffer.
C3_ZeroLengthPayload ==
    LET ps == RefPackets(fed, settings)
    IN  (ps # << >> /\ ps[Len(ps)] = << >> /\ RefRest(fed, settings) = << >>)
            => /\ pc # "panicked"
               /\ delivered \o packets = ps
               /\ state = AwaitingSize(<< >>)

\* C5: the payloads dequeued, followed by those still queued, are the frames
\* completed in the bytes fed, in arrival order (all of them unless
\* process_bytes panicked); a dequeue returns None exactly when the queue is
\* empty and otherwise returns and removes the front packet, and only it.
C5_FifoExactlyOnce ==
    /\ [](/\ IsPrefix(delivered \o packets, RefPackets(fed, settings))
          /\ (pc # "panicked"
                 => delivered \o packets = RefPackets(fed, settings)))
    /\ [][(ret'.op = "receive_raw_packet" /\ vars' # vars)
             => /\ (ret'.res = "None") <=> (packets = << >>)
                /\ packets = << >> => (packets' = << >> /\ delivered' = delivered)
                /\ packets # << >>
                      => /\ ret'.res = "Some"
                         /\ ret'.val = Head(packets)
                         /\ packets' = Tail(packets)
                         /\ delivered' = Append(delivered, Head(packets))
                /\ state' = state]_vars

\* Two different payloads were queued together and dequeued, and a further
\* dequeue found the queue empty.
C5_TwoDequeuedThenNone ==
    /\ Len(delivered) >= 2
    /\ delivered[1] # delivered[2]
    /\ ret.op = "receive_raw_packet"
    /\ ret.res = "None"

\* A maximum payload size a deployment would configure.
ConfiguredMaxPayload == 8

\* C8 (as claimed): the state machine never waits for a payload larger than
\* the configured maximum.
C8_OversizedLengthRejected ==
    state.tag = "AwaitingPacket" => state.size <= ConfiguredMaxPayload

\* C13 (as claimed): the parse state is AwaitingSize with at most 3 bytes or
\* AwaitingPacket with fewer payload bytes than its size.
C13_ParseStateInvariant ==
    \/ state.tag = "AwaitingSize" /\ Len(state.size_bytes) < SizeOfPacketSize
    \/ state.tag = "AwaitingPacket" /\ Len(state.received_data) < state.size

\* C14 (as claimed): no process_bytes call ends in a failed assertion.
C14_AssertionsHold ==
    ~(ret.op = "process_bytes" /\ ret.res = "panic")

\* The bytes a parse state holds: its partial size prefix, or the size
\* prefix it parsed and the part of the payload it has.
StateBytes(st, s) ==
    IF st.tag = "AwaitingSize"
    THEN st.size_bytes
    ELSE WritePacketSize(st.size, s) \o st.received_data

\* C19 (as claimed): every process_bytes call returns Ok with every byte of
\* its input consumed: the bytes fed so far are the frames of the packets
\* dequeued and queued, followed by the bytes the parse state holds.
C19_IngestConsumesAllInput ==
    ret.op = "process_bytes"
        => /\ ret.res = "Ok"
           /\ fed = ConcatFrames(delivered \o packets, settings)
                        \o StateBytes(state, settings)

(***************************************************************************)
(* Claims checked under SpecOps.                                           *)
(***************************************************************************)
\* C17: a send, whether it succeeds or fails, leaves the parse state and the
\* queue as they were; a dequeue leaves the parse state as it was and the
\* queue either as it was (when empty) or without its head; every step that
\* changes the parse state or lengthens the queue is a process_bytes call,
\* and it only appends to the queue.
C17_FrameConditions ==
    /\ [][(ret'.op \in {"send_raw_packet", "send_packet"})
             => (state' = state /\ packets' = packets)]_vars
    /\ [][(ret'.op = "receive_raw_packet")
             => /\ state' = state
                /\ \/ packets = << >> /\ packets' = << >>
                   \/ packets # << >> /\ packets' = Tail(packets)]_vars
    /\ [][(state' # state \/ Len(packets') > Len(packets))
             => /\ ret'.op = "process_bytes"
                /\ IsPrefix(packets, packets')]_vars

\* A send failed while the state machine holds part of a payload.
C17_SendFailedOnPartialFrame ==
    /\ ret = Ret("send_raw_packet", "Err", << >>)
    /\ state.tag = "AwaitingPacket"
    /\ state.received_data # << >>

(***************************************************************************)
(* Claims checked under SpecSend.                                          *)
(***************************************************************************)
\* C4 (as claimed): when one send_raw_packet call returned Ok for a payload P
\* and wrote its whole frame of 4 + len(P) bytes, and these bytes were fed
\* back to process_bytes, in whatever chunks, then process_bytes has not
\* failed and the queue holds exactly the one packet P.
C4_FramingRoundTrip ==
    \A P \in ByteSeqs(MaxPayload) :
        (sent = << P >> /\ Len(wire) = FrameLen(P) /\ fed = wire
                        /\ delivered = << >>)
            => /\ pc # "panicked"
               /\ packets = << P >>

\* C7 (as claimed): the bytes on the wire are exactly the frames of the
\* payloads whose send_raw_packet returned Ok, in call order.
C7_WholeFramesOnTheWire ==
    wire = ConcatFrames(sent, settings)

(***************************************************************************)
(* Claims checked under SpecWide.                                          *)
(***************************************************************************)
\* C20 (as claimed): when one send_raw_packet call returned Ok for a payload
\* P and wrote its whole frame, the size prefix on the wire reads as len(P),
\* and a receiver that has ingested exactly the prefix awaits a payload of
\* len(P) bytes.
C20_SizePrefixIsLength ==
    (Len(sent) = 1 /\ Len(wire) = FrameLen(sent[1]))
        => /\ ReadPacketSize(SubSeq(wire, 1, SizeOfPacketSize), settings)
                  = Len(sent[1])
           /\ Len(fed) = SizeOfPacketSize
                  => (state.tag = "AwaitingPacket" /\ state.size = Len(sent[1]))

(***************************************************************************)
(* Claims checked under SpecSplit.                                         *)
(***************************************************************************)
\* C11: the split leaves the receive half and the send half each with a
\* transport in the state AwaitingSize with an empty buffer and an empty
\* queue, whatever the transport of the connection held, and leaves the
\* stream as it was; from then on the queue and the parse state of the
\* receive half are those of the bytes it ingested itself, so that what it
\* returns are frames of these bytes.
C11_SplitStartsFresh ==
    /\ [][(~split.done /\ split'.done)
             => /\ state' = AwaitingSize(<< >>)
                /\ packets' = << >>
                /\ split'.send = [state |-> AwaitingSize(<< >>),
                                  packets |-> << >>]
                /\ split'.dropped = [state |-> state, packets |-> packets]
                /\ UNCHANGED << settings, stream, inflight >>]_vars
    /\ []((split.done /\ pc # "panicked")
             => /\ delivered \o packets = RefPackets(fed, settings)
                /\ state = RefState(RefRest(fed, settings), settings))
    /\ [](split.done
             => IsPrefix(delivered \o packets, RefPackets(fed, settings)))

\* The connection was split while its transport held a completed packet and
\* part of a frame, and the receive half has since ingested bytes and
\* returned from a call.
C11_SplitDroppedQueueAndPartial ==
    /\ split.done
    /\ split.dropped.packets # << >>
    /\ split.dropped.state # AwaitingSize(<< >>)
    /\ fed # << >>
    /\ pc = "idle"
    /\ ret.res \in {"Some", "None"}

C6_DrainErrorPropagation ==
    lastread = "Err"
        => /\ pc # "panicked"
           /\ ret = Ret("receive_packet", "Err", << >>)

\* C15 (as claimed): every read of the drain returns at most BUFFER_SIZE
\* bytes, the oldest unread bytes of the stream, which are ingested after
\* the bytes ingested before and leave the stream; after a read of fewer
\* than BUFFER_SIZE bytes the call returns, and after a read of exactly
\* BUFFER_SIZE bytes it issues another read.
C15_DrainStopRule ==
    [][(pc = "read" /\ ret'.res # "cancelled" /\ lastread' # "Err"
           /\ (fed' # fed \/ pc' # "read"))
          => LET n == Len(fed') - Len(fed)
             IN  /\ n <= BUFFER_SIZE
                 /\ fed' = fed \o SubSeq(stream, 1, n)
                 /\ stream' = SubSeq(stream, n + 1, Len(stream))
                 /\ n < BUFFER_SIZE
                       => (pc' = "idle" /\ ret'.res \in {"None", "Some", "Err"})
                 /\ n = BUFFER_SIZE
                       => (pc' = "read" /\ ret'.res = "pending")]_vars

\* C16: dropping a receive_packet call that is suspended in a read changes
\* neither the transport nor the stream nor what was ingested and delivered;
\* before and after, unless a call panicked, the queue and the parse state
\* are those of the bytes ingested; no step loses a byte of the stream or ingests one
\* twice; and the payloads delivered are, in order, frames of the stream.
C16_CancellationSafety ==
    /\ [][(ret.res = "pending" /\ ret'.res = "cancelled")
             => /\ pc = "read" /\ pc' = "idle"
                /\ UNCHANGED << state, packets, stream, inflight, fed,
                                delivered >>]_vars
    /\ [](pc # "panicked"
             => /\ delivered \o packets = RefPackets(fed, settings)
                /\ state = RefState(RefRest(fed, settings), settings))
    /\ [][fed' \o stream' \o inflight' = fed \o stream \o inflight]_vars
    /\ [](IsPrefix(delivered \o packets,
                   RefPackets(fed \o stream \o inflight, settings)))

\* A call was dropped in the middle of a frame, with a completed packet in
\* the queue and bytes of the stream still to read.
C16_CancelledInMidFrame ==
    /\ ret.res = "cancelled"
    /\ packets # << >>
    /\ state.tag = "AwaitingPacket"
    /\ stream # << >>

\* C18 (as claimed): a receive_packet call that starts while the queue holds
\* a packet comes to an end, whether or not the peer sends or closes.
C18_QueuedPacketDelivered ==
    (pc = "read" /\ lastread = "none" /\ packets # << >>) ~> (pc # "read")

\* C9: a receive_packet call that returns with no complete, undelivered
\* frame ingested returns Ok(None), dequeues nothing and leaves as parse
\* state exactly the incomplete frame at the end of the bytes ingested (the
\* state it had, when the last read brought nothing); a call that returns
\* with such a frame ingested does not return Ok(None), and what it returns
\* in Ok(Some) is the oldest such frame.
C9_NoPacketYetIsOkNone ==
    [][(ret.res = "pending" /\ pc = "read" /\ pc' = "idle"
                            /\ ret'.res # "cancelled")
          => LET done == RefPackets(fed', settings)
             IN  /\ Len(done) = Len(delivered)
                    => /\ ret' = Ret("receive_packet", "None", << >>)
                       /\ packets' = << >>
                       /\ delivered' = delivered
                       /\ errors' = errors
                       /\ state' = RefState(RefRest(fed', settings), settings)
                       /\ fed' = fed => state' = state
                 /\ Len(done) > Len(delivered)
                    => /\ ret'.res \in {"Some", "Err"}
                       /\ ret'.res = "Some"
                             => ret'.val = done[Len(delivered) + 1]]_vars

\* A call returned Ok(None) at the end of a closed stream while the parse
\* state holds part of a payload.
C9_NoneOnClosedPartialFrame ==
    /\ ret = Ret("receive_packet", "None", << >>)
    /\ eof
    /\ stream = << >>
    /\ state.tag = "AwaitingPacket"
    /\ state.received_data # << >>

\* C10: a receive_packet call that returns Err has dequeued exactly the
\* oldest ingested frame, the one that failed to decode; the queue keeps the
\* frames after it and the parse state the incomplete frame at the end of
\* the bytes ingested.  After such failures the framing stays in step with
\* the stream, and a later Ok(Some) carries the next frame of the stream.
C10_DecodeFailureKeepsFraming ==
    /\ [][(ret.res = "pending" /\ ret'.res = "Err")
             => LET done == RefPackets(fed', settings)
                IN  /\ pc' = "idle"
                    /\ Len(done) > Len(delivered)
                    /\ delivered' = Append(delivered, done[Len(delivered) + 1])
                    /\ packets' = SubSeq(done, Len(delivered) + 2, Len(done))
                    /\ state' = RefState(RefRest(fed', settings), settings)]_vars
    /\ []((errors > 0 /\ pc # "panicked")
             => /\ delivered \o packets = RefPackets(fed, settings)
                /\ state = RefState(RefRest(fed, settings), settings))
    /\ [][(errors > 0 /\ ret.res = "pending" /\ ret'.res = "Some")
             => /\ Len(RefPackets(fed', settings)) > Len(delivered)
                /\ ret'.val = RefPackets(fed', settings)[Len(delivered) + 1]
                /\ delivered' = Append(delivered, ret'.val)]_vars

\* After a call failed to decode a payload, a later call returned the next
\* frame of the stream.
C10_DeliveredAfterFailure ==
    /\ errors > 0
    /\ ret.res = "Some"
    /\ Len(delivered) >= 2

==========================================================================
